---- MODULE Spec2Model ----
(***************************************************************************)
(* The turboprop composition engine of                                     *)
(* src/aviary/subsystems/propulsion/turboprop_model.py:                    *)
(*   TurbopropModel    (the facade: __init__, build_pre_mission,           *)
(*                      build_mission, build_post_mission)                 *)
(*   TurbopropMission  (the per-node group: setup, configure)              *)
(* A port name is a string, built the way the code builds it               *)
(* (var + '_gearbox' is var \o "_gearbox").  A promotion list is a         *)
(* sequence of pairs <<name, alias>>; the wildcard '*' is <<"*", "*">>.    *)
(***************************************************************************)
EXTENDS Naturals, Sequences, FiniteSets, TLC

\* ------------------------------------------------------------------ bounds
\* the largest node count; node counts are 1 and MaxNodes
MaxNodes == 2
NodeCounts == {1, MaxNodes}

\* --------------------------------------------------------- variable names
\* Dynamic.Mission.* and Aircraft.Engine.* (variables.py is imported, line 12)
THRUST == "thrust"
THRUST_MAX == "thrust_max"
RPM == "rpm"
SHAFT_POWER == "shaft_power"
SHAFT_POWER_MAX == "shaft_power_max"
\* Verbosity (enums.py is imported, line 13): QUIET < BRIEF
QUIET == 0
BRIEF == 1

\* ---------------------------------------------------------------- stages
\* A stage (a SubsystemBuilderBase) is [cls, name]; None is the absent stage.
None == [cls |-> "None", name |-> "None"]
\* the default power source of __init__ (line 71): name + '_engine_deck'
EngineDeck == [cls |-> "EngineDeck", name |-> "turboprop_model_engine_deck"]
\* the default gearbox of __init__ (line 88): name + '_gearbox'
GearboxBuilder == [cls |-> "GearboxBuilder", name |-> "turboprop_model_gearbox"]
\* stages a caller supplies
UserShp == [cls |-> "User", name |-> "shp"]
UserGearbox == [cls |-> "User", name |-> "gearbox"]
UserProp == [cls |-> "User", name |-> "prop"]

\* The result of a build operation that returns "not applicable".
NoComp == [built |-> FALSE, inputs |-> {}, outputs |-> {}]
Comp(ins, outs) == [built |-> TRUE, inputs |-> ins, outputs |-> outs]

\* Port universes the stage manifests are drawn from.
ShpInputs == {"throttle"}
ShpOutputUniverse == {THRUST, THRUST_MAX, RPM, SHAFT_POWER}
GearboxInputUniverse == {SHAFT_POWER, SHAFT_POWER \o "_in", RPM, RPM \o "_in"}
GearboxOutputUniverse == {SHAFT_POWER \o "_out"}
\* output manifests of a caller's power source: every subset of the
\* universe, and manifests with an output named like a gearbox input
\* (x_in) or like an alias of the wiring (x_gearbox)
ShpOutputManifests ==
    (SUBSET ShpOutputUniverse)
    \cup {{THRUST, SHAFT_POWER, SHAFT_POWER \o "_in"},
          {THRUST, SHAFT_POWER, SHAFT_POWER \o "_gearbox"}}
\* input manifests of a caller's gearbox: every subset of the universe, and
\* a gearbox that takes the thrust of the power source as well
GearboxInputManifests ==
    (SUBSET GearboxInputUniverse)
    \cup {{THRUST, SHAFT_POWER \o "_in", RPM \o "_in"}}
\* manifests <<inputs, outputs>> of a caller's propeller computation; the last
\* two lack the shaft power input, the thrust output
UserPropManifests ==
    {<<{SHAFT_POWER}, {THRUST}>>,
     <<{SHAFT_POWER, RPM}, {THRUST}>>,
     <<{SHAFT_POWER}, {THRUST, "propeller_efficiency"}>>,
     <<{SHAFT_POWER, RPM}, {THRUST, "propeller_efficiency"}>>,
     <<{RPM}, {THRUST}>>,
     <<{SHAFT_POWER}, {"propeller_efficiency"}>>}
\* outputs of PropellerPerformance besides the thrust
PropellerPerformanceOutputs == {"propeller_efficiency"}
\* the default stages' per-node manifests: an engine deck with thrust, shaft
\* power and shaft speed, the simple gearbox with the x_in / x_out ports
EngineDeckOutputs == {THRUST, THRUST_MAX, RPM, SHAFT_POWER}
GearboxBuilderInputs == {SHAFT_POWER \o "_in", RPM \o "_in"}
GearboxBuilderOutputs == {SHAFT_POWER \o "_out", RPM \o "_out"}
\* values of Aircraft.Engine.FIXED_RPM a caller may supply, in rpm
FixedRpmValues == {1500}

\* ------------------------------------------------- promotion (OpenMDAO)
Star == <<"*", "*">>

Range(seq) == {seq[i] : i \in DOMAIN seq}

\* '.' in prom_name
HasDot(s) == \E i \in 1..Len(s) : SubSeq(s, i, i) = "."

\* the first explicit entry for p
FirstExplicit(list, p) ==
    LET idx == {i \in DOMAIN list : list[i] # Star /\ list[i][1] = p}
    IN  IF idx = {} THEN 0 ELSE CHOOSE i \in idx : \A j \in idx : i <= j

\* The name under which port p of subsystem sub is seen one level up, given
\* the subsystem's promotion list: an explicit entry for p wins over the
\* wildcard, the last explicit entry wins, and a port no entry matches is
\* seen as sub.p.
LastExplicit(list, p) ==
    LET idx == {i \in DOMAIN list : list[i] # Star /\ list[i][1] = p}
    IN  IF idx = {} THEN 0 ELSE CHOOSE i \in idx : \A j \in idx : j <= i

PromName(sub, list, p) ==
    LET k == LastExplicit(list, p)
    IN  IF k # 0 THEN list[k][2]
        ELSE IF Star \in Range(list) THEN p
        ELSE sub \o "." \o p

\* explicit entries of a promotion list that match no port
NotFound(list, ports) == {e \in Range(list) : e # Star /\ e[1] \notin ports}

\* ------------------------------------------------------------------ state
VARIABLES
    shaft_power_model,  \* TurbopropModel.shaft_power_model
    propeller_model,    \* TurbopropModel.propeller_model
    gearbox_model,      \* TurbopropModel.gearbox_model
    aviary_inputs,      \* the inputs a caller supplies: the FIXED_RPM entry, VERBOSITY
    kwargs,             \* the **kwargs mapping a caller passes to the build calls
    kind,               \* the composite built last: none, pre_mission, mission, post_mission
    phase,              \* of a mission group: Declared, StagesInstantiated, Wired,
                        \* or SetupFailed, ConfigureFailed
    options,            \* TurbopropMission.options
    subsystems,         \* the subsystems of the composite, in the order they were added
    rpm_ivc,            \* the outputs added to fixed_rpm_source
    warned,             \* the warnings emitted by configure
    received,           \* per stage, the keyword arguments of each build call made to it
    values,             \* the values computed by a run of the wired group
    error               \* the exception that ended the last operation, or none

vars == <<shaft_power_model, propeller_model, gearbox_model, aviary_inputs,
          kwargs, kind, phase, options, subsystems, rpm_ivc, warned, received,
          values, error>>

model_vars == <<shaft_power_model, propeller_model, gearbox_model, aviary_inputs,
                kwargs>>

\* a build call that replaces the gearbox reference by None
GearboxReleased ==
    /\ gearbox_model' = None
    /\ UNCHANGED <<shaft_power_model, propeller_model, aviary_inputs, kwargs>>

\* The build methods, setup and configure only read self.shaft_power_model,
\* self.propeller_model, self.gearbox_model, aviary_inputs and kwargs: none
\* of them assigns to a stage reference or sets a value of aviary_inputs.
ReadOnly == UNCHANGED model_vars

\* A mapping of keyword arguments is a set of <<keyword, value>> pairs; the
\* value kept under a stage's name is itself such a mapping.
NoKwargs == {}

\* the mappings a caller passes: none, parameters for the caller's power
\* source, parameters for both propellers, parameters for both gearboxes
KwargsMappings ==
    {NoKwargs,
     {<<"shp", {<<"option", 1>>}>>},
     {<<"prop", {<<"option", 1>>}>>, <<"hamilton_standard", {<<"option", 2>>}>>},
     {<<"gearbox", {<<"option", 1>>}>>,
      <<"turboprop_model_gearbox", {<<"option", 2>>}>>}}

\* kwargs[name], or {} on the KeyError / AttributeError the code catches
KwargsFor(kw, name) ==
    IF \E e \in kw : e[1] = name
    THEN (CHOOSE e \in kw : e[1] = name)[2]
    ELSE {}

\* the group has not been run
NoValues == [shp_thrust |-> <<>>, shp_thrust_max |-> <<>>,
             propeller_thrust |-> <<>>, propeller_thrust_max |-> <<>>,
             thrust |-> <<>>, thrust_max |-> <<>>]

\* no build call made to any stage
NoCalls == [shp |-> <<>>, gearbox |-> <<>>, propeller |-> <<>>]

NoOptions == [num_nodes |-> 0, shaft_power_model |-> None,
              propeller_model |-> None, gearbox_model |-> None,
              kwargs |-> NoKwargs]

\* a subsystem added with promotes=['*'] whatever the caller asked for
SubsystemPromotesAll(name, role, ins, outs, pin, pout, kids) ==
    [name |-> name, role |-> role, inputs |-> ins, outputs |-> outs,
     promotes_inputs |-> <<Star>>, promotes_outputs |-> <<Star>>,
     children |-> kids]

\* A subsystem of a group: its name, the stage it realizes, its ports (seen
\* from outside the subsystem), the promotion lists registered for it, and,
\* for the propeller group, the instances inside it.
Subsystem(name, role, ins, outs, pin, pout, kids) ==
    [name |-> name, role |-> role, inputs |-> ins, outputs |-> outs,
     promotes_inputs |-> pin, promotes_outputs |-> pout, children |-> kids]

\* ------------------------------------------------- TurbopropModel.__init__
\* the constructor without the default gearbox: None is kept
InitKeepsGearboxNone(shaft, prop, gear) ==
    [shaft_power_model |-> IF shaft = None THEN EngineDeck ELSE shaft,
     propeller_model |-> prop,
     gearbox_model |-> gear]

\* the three stage references after construction
TurbopropModel__init__(shaft, prop, gear) ==
    [shaft_power_model |-> IF shaft = None THEN EngineDeck ELSE shaft,
     propeller_model |-> prop,
     gearbox_model |-> IF gear = None THEN GearboxBuilder ELSE gear]

AviaryInputs == [fixed_rpm : {<<>>} \cup {<<r>> : r \in FixedRpmValues},
                 verbosity : {QUIET, BRIEF}]

\* the state after construction, for a caller whose build calls pass one of
\* the mappings kws and whose inputs are among ais
Constructed(kws, ais) ==
    /\ \E shaft \in {None, UserShp}, prop \in {None, UserProp},
          gear \in {None, UserGearbox} :
          LET m == TurbopropModel__init__(shaft, prop, gear)
          IN  /\ shaft_power_model = m.shaft_power_model
              /\ propeller_model = m.propeller_model
              /\ gearbox_model = m.gearbox_model
    /\ aviary_inputs \in ais
    /\ kwargs \in kws
    /\ kind = "none"
    /\ phase = "none"
    /\ options = NoOptions
    /\ subsystems = <<>>
    /\ rpm_ivc = <<>>
    /\ warned = <<>>
    /\ received = NoCalls
    /\ values = NoValues
    /\ error = "none"

\* build calls that pass no keyword arguments
Init == Constructed({NoKwargs}, AviaryInputs)

\* build calls that pass keyword arguments, with the rotational speed fixed
InitKwargs ==
    Constructed(KwargsMappings,
                {[fixed_rpm |-> <<r>>, verbosity |-> QUIET] : r \in FixedRpmValues})

\* One composite is followed at a time: the next build call comes when none
\* is under construction.
Idle == kind # "mission" \/ phase \in {"Wired", "SetupFailed", "ConfigureFailed"}

\* what a stage's build_pre_mission or build_post_mission may return
StaticResults == {NoComp, Comp({"scale_factor"}, {"scaled"})}

\* -------------------------------------- TurbopropModel.build_pre_mission
\* add_subsystem(<result>.name, subsys=<result>, promotes=['*'])
PreMissionSubsystem(stage, role, r) ==
    Subsystem(stage.name, role, r.inputs, r.outputs, <<Star>>, <<Star>>, <<>>)

PreMissionGroup(rs, rg, rp) ==
    (IF shaft_power_model.cls # "EngineDeck" /\ rs.built
        THEN <<PreMissionSubsystem(shaft_power_model, "shp", rs)>> ELSE <<>>)
    \o (IF rg.built
        THEN <<PreMissionSubsystem(gearbox_model, "gearbox", rg)>> ELSE <<>>)
    \o (IF propeller_model # None /\ rp.built
        THEN <<PreMissionSubsystem(propeller_model, "propeller", rp)>> ELSE <<>>)

\* each stage's build_pre_mission is called with **kwargs, the whole mapping
\* (lines 102, 110-112, 121-123)
PreMissionCalls ==
    [shp |-> IF shaft_power_model.cls # "EngineDeck" THEN <<kwargs>> ELSE <<>>,
     gearbox |-> <<kwargs>>,
     propeller |-> IF propeller_model # None THEN <<kwargs>> ELSE <<>>]

build_pre_mission ==
    /\ Idle
    /\ \E rs \in StaticResults, rg \in StaticResults, rp \in StaticResults :
          subsystems' = PreMissionGroup(rs, rg, rp)
    /\ received' = PreMissionCalls
    /\ kind' = "pre_mission"
    /\ phase' = "none"
    /\ options' = NoOptions
    /\ rpm_ivc' = <<>>
    /\ warned' = <<>>
    /\ error' = "none"
    /\ values' = NoValues
    /\ ReadOnly

\* ------------------------------------- TurbopropModel.build_post_mission
\* Every add_subsystem call of build_post_mission passes aviary_options=...,
\* a keyword om.Group.add_subsystem does not take: the first stage whose
\* build_post_mission returns a computation ends the call with a TypeError,
\* before anything is attached.
PostMissionError(rs, rg, rp) ==
    IF rs.built \/ rg.built \/ (propeller_model # None /\ rp.built)
    THEN "TypeError" ELSE "none"

\* each stage's build_post_mission is called with **kwargs, the whole
\* mapping (lines 151, 159-161, 170-172), until an add_subsystem call raises
PostMissionCalls(rs, rg, rp) ==
    [shp |-> <<kwargs>>,
     gearbox |-> IF rs.built THEN <<>> ELSE <<kwargs>>,
     propeller |-> IF rs.built \/ rg.built \/ propeller_model = None
                   THEN <<>> ELSE <<kwargs>>]

build_post_mission ==
    /\ Idle
    /\ \E rs \in StaticResults, rg \in StaticResults, rp \in StaticResults :
          /\ error' = PostMissionError(rs, rg, rp)
          /\ received' = PostMissionCalls(rs, rg, rp)
    /\ subsystems' = <<>>
    /\ kind' = "post_mission"
    /\ phase' = "none"
    /\ options' = NoOptions
    /\ rpm_ivc' = <<>>
    /\ warned' = <<>>
    /\ values' = NoValues
    /\ ReadOnly

\* ------------------------------------------ TurbopropModel.build_mission
\* the group constructed without the model's gearbox
MissionOptionsWithoutGearbox(num_nodes) ==
    [num_nodes |-> num_nodes, shaft_power_model |-> shaft_power_model,
     propeller_model |-> propeller_model, gearbox_model |-> None,
     kwargs |-> kwargs]

MissionOptions(num_nodes) ==
    [num_nodes |-> num_nodes, shaft_power_model |-> shaft_power_model,
     propeller_model |-> propeller_model, gearbox_model |-> gearbox_model,
     kwargs |-> kwargs]

build_mission ==
    /\ Idle
    /\ \E num_nodes \in NodeCounts : options' = MissionOptions(num_nodes)
    /\ kind' = "mission"
    /\ phase' = "Declared"
    /\ received' = NoCalls
    /\ subsystems' = <<>>
    /\ rpm_ivc' = <<>>
    /\ warned' = <<>>
    /\ error' = "none"
    /\ values' = NoValues
    /\ ReadOnly

\* TurbopropMission constructed by a caller of its own, with the stages of
\* the model and no gearbox (the class takes gearbox_model=None: setup
\* line 228, configure line 355).
TurbopropMissionNoGearbox ==
    /\ Idle
    /\ \E num_nodes \in NodeCounts :
          options' = [MissionOptions(num_nodes) EXCEPT !.gearbox_model = None]
    /\ kind' = "mission"
    /\ phase' = "Declared"
    /\ received' = NoCalls
    /\ subsystems' = <<>>
    /\ rpm_ivc' = <<>>
    /\ warned' = <<>>
    /\ error' = "none"
    /\ values' = NoValues
    /\ ReadOnly

\* ------------------------------------------------- TurbopropMission.setup
\* what build_mission of the power source may return: a caller's stage
\* returns None or a computation, EngineDeck returns its engine component
ShpMissionResults(stage) ==
    IF stage.cls = "User"
    THEN {NoComp} \cup {Comp(ShpInputs, o) : o \in ShpOutputManifests}
    ELSE {Comp(ShpInputs, EngineDeckOutputs)}

\* what build_mission of the gearbox may return (not called without a gearbox)
GearboxMissionResults(stage) ==
    IF stage = None THEN {NoComp}
    ELSE IF stage.cls = "User"
    THEN {NoComp} \cup {Comp(i, o) : i \in GearboxInputManifests,
                                     o \in SUBSET GearboxOutputUniverse}
    ELSE {Comp(GearboxBuilderInputs, GearboxBuilderOutputs)}

\* the inputs the Hamilton Standard instances promote by name (prop_inputs)
prop_inputs ==
    <<"mach", "aircraft:engine:propeller_tip_speed_max",
      "aircraft:engine:propeller_tip_mach_max", "density", "velocity",
      "aircraft:engine:propeller_diameter",
      "aircraft:engine:propeller_activity_factor",
      "aircraft:engine:propeller_integrated_lift_coefficient",
      "aircraft:nacelle:avg_diameter", "speed_of_sound", RPM>>

\* what the propeller yields per node: build_mission of a caller's stage
\* (None, or a computation), or PropellerPerformance, whose top-level inputs
\* are prop_inputs and the shaft power, and which always computes thrust
PropMissionResults(stage) ==
    IF stage = None
    THEN {Comp(Range(prop_inputs) \cup {SHAFT_POWER}, {THRUST} \cup o) :
             o \in SUBSET PropellerPerformanceOutputs}
    ELSE {NoComp} \cup {Comp(m[1], m[2]) : m \in UserPropManifests}

Plain(names) == [k \in DOMAIN names |-> <<names[k], names[k]>>]

\* the ports of a group, seen from outside: each port of each instance under
\* the name its promotion list gives it
GroupInputs(kids) ==
    UNION {{PromName(kids[k].name, kids[k].promotes_inputs, p) :
               p \in kids[k].inputs} : k \in DOMAIN kids}

GroupOutputs(kids) ==
    UNION {{PromName(kids[k].name, kids[k].promotes_outputs, p) :
               p \in kids[k].outputs} : k \in DOMAIN kids}

\* the max instance left on the nominal shaft power
NominalPowerPromotion == <<SHAFT_POWER, SHAFT_POWER>>

\* the promotion of the max instance's power input (lines 261, 312)
MaxPowerPromotion == <<SHAFT_POWER, SHAFT_POWER_MAX>>

\* the two instances a caller's propeller is added as (lines 246-266)
UserPropellerInstances(stage, r) ==
    IF ~r.built THEN <<>>
    ELSE <<Subsystem(stage.name \o "_base", "propeller_base", r.inputs, r.outputs,
                     <<Star>>, <<<<THRUST, THRUST>>>>, <<>>),
           Subsystem(stage.name \o "_max", "propeller_max", r.inputs, r.outputs,
                     <<Star, MaxPowerPromotion>>,
                     <<<<THRUST, THRUST_MAX>>>>, <<>>)>>

\* the two PropellerPerformance instances of the default (lines 293-315)
DefaultPropellerInstances(r) ==
    <<Subsystem("propeller_model_base", "propeller_base", r.inputs, r.outputs,
                <<Star>>, <<Star>>, <<>>),
      Subsystem("propeller_model_max", "propeller_max", r.inputs, r.outputs,
                Plain(prop_inputs) \o <<MaxPowerPromotion>>,
                <<<<THRUST, THRUST_MAX>>>>, <<>>)>>

PropellerGroup(stage, r) ==
    LET kids == IF stage = None THEN DefaultPropellerInstances(r)
                ELSE UserPropellerInstances(stage, r)
    IN  Subsystem(IF stage = None THEN "propeller_model" ELSE stage.name,
                  "propeller", GroupInputs(kids), GroupOutputs(kids),
                  <<>>, <<>>, kids)

\* thrust_adder and max_thrust_adder (lines 319-345): ExecComps whose inputs
\* are promoted under their own names and whose output is promoted as
\* thrust, thrust_max
ThrustAdders ==
    <<Subsystem("thrust_adder", "thrust_adder",
                {"turboshaft_thrust", "propeller_thrust"}, {"turboprop_thrust"},
                <<Star>>, <<<<"turboprop_thrust", THRUST>>>>, <<>>),
      Subsystem("max_thrust_adder", "max_thrust_adder",
                {"turboshaft_thrust_max", "propeller_thrust_max"},
                {"turboprop_thrust_max"},
                <<Star>>, <<<<"turboprop_thrust_max", THRUST_MAX>>>>, <<>>)>>

\* the subsystems setup adds, in order
SetupSubsystems(rs, rg, rp) ==
    (IF rs.built
        THEN <<Subsystem(options.shaft_power_model.name, "shp",
                         rs.inputs, rs.outputs, <<>>, <<>>, <<>>)>>
        ELSE <<>>)
    \o <<Subsystem("fixed_rpm_source", "fixed_rpm_source", {}, {}, <<>>, <<>>, <<>>)>>
    \o (IF options.gearbox_model # None /\ rg.built
        THEN <<Subsystem(options.gearbox_model.name, "gearbox",
                         rg.inputs, rg.outputs, <<>>, <<>>, <<>>)>>
        ELSE <<>>)
    \o <<PropellerGroup(options.propeller_model, rp)>>
    \o ThrustAdders

\* A promotion given to add_subsystem that matches no port of the instance
\* ends construction with OpenMDAO's RuntimeError ("failed to find any
\* matches") when the group's variables are collected, after setup returns.
UnmatchedPromotion(subs) ==
    \E k \in DOMAIN subs :
        \/ NotFound(subs[k].promotes_inputs, subs[k].inputs) # {}
        \/ NotFound(subs[k].promotes_outputs, subs[k].outputs) # {}
        \/ \E c \in DOMAIN subs[k].children :
              \/ NotFound(subs[k].children[c].promotes_inputs,
                          subs[k].children[c].inputs) # {}
              \/ NotFound(subs[k].children[c].promotes_outputs,
                          subs[k].children[c].outputs) # {}

\* the keyword arguments setup passes to each stage's build_mission:
\* kwargs[<stage>.name], or {} when the mapping has no such key; a caller's
\* propeller that returns a computation is built a second time for the max
\* instance, and PropellerPerformance is constructed twice with
\* kwargs['hamilton_standard']
SetupCalls(rp) ==
    [shp |-> <<KwargsFor(options.kwargs, options.shaft_power_model.name)>>,
     gearbox |-> IF options.gearbox_model # None
                 THEN <<KwargsFor(options.kwargs, options.gearbox_model.name)>>
                 ELSE <<>>,
     propeller |->
        IF options.propeller_model # None
        THEN LET propeller_kwargs ==
                     KwargsFor(options.kwargs, options.propeller_model.name)
             IN  IF rp.built THEN <<propeller_kwargs, propeller_kwargs>>
                 ELSE <<propeller_kwargs>>
        ELSE LET propeller_kwargs == KwargsFor(options.kwargs, "hamilton_standard")
             IN  <<propeller_kwargs, propeller_kwargs>>]

setup ==
    /\ kind = "mission"
    /\ phase = "Declared"
    /\ \E rs \in ShpMissionResults(options.shaft_power_model),
          rg \in GearboxMissionResults(options.gearbox_model),
          rp \in PropMissionResults(options.propeller_model) :
          LET subs == SetupSubsystems(rs, rg, rp)
          IN  /\ subsystems' = subs
              /\ received' = SetupCalls(rp)
              /\ error' = IF UnmatchedPromotion(subs) THEN "RuntimeError" ELSE "none"
              /\ phase' = IF UnmatchedPromotion(subs) THEN "SetupFailed"
                          ELSE "StagesInstantiated"
    /\ ReadOnly
    /\ UNCHANGED <<kind, options, rpm_ivc, warned, values>>

\* --------------------------------------------- TurbopropMission.configure
has_gearbox == options.gearbox_model # None

\* self._get_subsystem(name): the position of the subsystem, 0 for None
get_subsystem(subs, name) ==
    LET idx == {k \in DOMAIN subs : subs[k].name = name}
    IN  IF idx = {} THEN 0 ELSE CHOOSE k \in idx : TRUE

\* set(prom_name for ... if '.' not in prom_name)
PromNameSet(ports) == {p \in ports : ~HasDot(p)}

propeller_model_name ==
    IF options.propeller_model = None THEN "propeller_model"
    ELSE options.propeller_model.name

\* the orders in which a for loop may visit a set: every order
IterationOrders(S) ==
    {f \in [1..Cardinality(S) -> S] :
        \A i \in DOMAIN f, j \in DOMAIN f : i # j => f[i] # f[j]}

\* SHP MODEL: thrust outputs are promoted under the turboshaft names
ShpThrustPromotions(shp_output_set) ==
    (IF THRUST \in shp_output_set
        THEN <<<<THRUST, "turboshaft_thrust">>>> ELSE <<>>)
    \o (IF THRUST_MAX \in shp_output_set
        THEN <<<<THRUST_MAX, "turboshaft_thrust_max">>>> ELSE <<>>)

\* SHP -> GEARBOX, one pass of the loop body: what is appended to shp_outputs
\* and to gearbox_inputs for var
ShpGearboxAlias(var, gearbox_input_set) ==
    IF var \in gearbox_input_set /\ var # RPM
    THEN [shp |-> <<<<var, var \o "_gearbox">>>>,
          gearbox |-> <<<<var, var \o "_gearbox">>>>]
    ELSE IF (var \o "_in") \in gearbox_input_set /\ var # RPM
    THEN [shp |-> <<<<var, var \o "_gearbox">>>>,
          gearbox |-> <<<<var \o "_in", var \o "_gearbox">>>>]
    ELSE [shp |-> <<>>, gearbox |-> <<>>]

\* the elements of shp_output_set for which the loop body appends something
ShpLoopVars(shp_output_set, gearbox_input_set) ==
    {var \in shp_output_set :
        ShpGearboxAlias(var, gearbox_input_set).shp # <<>>}

\* SHP -> GEARBOX: the loop over shp_output_set, in the order given
RECURSIVE ShpToGearbox(_, _)
ShpToGearbox(shp_output_seq, gearbox_input_set) ==
    IF shp_output_seq = <<>> THEN [shp |-> <<>>, gearbox |-> <<>>]
    ELSE LET h == ShpGearboxAlias(Head(shp_output_seq), gearbox_input_set)
             t == ShpToGearbox(Tail(shp_output_seq), gearbox_input_set)
         IN  [shp |-> h.shp \o t.shp, gearbox |-> h.gearbox \o t.gearbox]

\* Aircraft.Engine.FIXED_RPM in self.aviary_inputs
has_fixed_rpm == aviary_inputs.fixed_rpm # <<>>

\* aviary_inputs.get_val(Aircraft.Engine.FIXED_RPM, units='rpm')
fixed_rpm == aviary_inputs.fixed_rpm[1]

\* np.ones(num_nodes) without the multiplication by the override value
OnesOnly(num_nodes, value) == [i \in 1..num_nodes |-> 1]

\* np.ones(self.num_nodes) * fixed_rpm
fixed_rpm_nn(num_nodes, value) == [i \in 1..num_nodes |-> 1 * value]

\* the override without the AUTO_OVERRIDE alias
NoOverrideAlias(shp_output_set) == <<>>

\* the power source's own RPM output is promoted away under the override
OverrideShpPromotions(shp_output_set) ==
    IF RPM \in shp_output_set
    THEN <<<<RPM, "AUTO_OVERRIDE:" \o RPM>>>> ELSE <<>>

\* the promotion of the constant source: as fixed_rpm with a gearbox,
\* everything ('*') without
FixedRpmSourcePromotions ==
    IF has_gearbox THEN <<<<RPM, "fixed_rpm">>>> ELSE <<Star>>

\* the gearbox input the constant is bound to
OverrideGearboxPromotions == <<<<RPM \o "_in", "fixed_rpm">>>>

\* the warning given whatever the verbosity
WarnsAtAnyVerbosity(shp_output_set, shp_name) ==
    IF RPM \in shp_output_set
    THEN <<[stage |-> shp_name, fixed_rpm |-> fixed_rpm]>> ELSE <<>>

\* the warning of lines 455-460
OverrideWarnings(shp_output_set, shp_name) ==
    IF RPM \in shp_output_set /\ aviary_inputs.verbosity >= BRIEF
    THEN <<[stage |-> shp_name, fixed_rpm |-> fixed_rpm]>> ELSE <<>>

\* the elements of propeller_input_set for which the loop body appends something
PropLoopVars(propeller_input_set, gearbox_output_set) ==
    {var \in propeller_input_set : (var \o "_out") \in gearbox_output_set}

\* the loop left after its first match
GearboxToPropellerFirstOnly(propeller_input_seq, gearbox_output_set) ==
    IF propeller_input_seq = <<>> THEN <<>>
    ELSE <<<<Head(propeller_input_seq) \o "_out", Head(propeller_input_seq)>>>>

\* GEARBOX -> PROPELLER: the loop over propeller_input_set, in the order given
RECURSIVE GearboxToPropeller(_, _)
GearboxToPropeller(propeller_input_seq, gearbox_output_set) ==
    IF propeller_input_seq = <<>> THEN <<>>
    ELSE (IF (Head(propeller_input_seq) \o "_out") \in gearbox_output_set
             THEN <<<<Head(propeller_input_seq) \o "_out", Head(propeller_input_seq)>>>>
             ELSE <<>>)
         \o GearboxToPropeller(Tail(propeller_input_seq), gearbox_output_set)

\* propeller outputs: everything, thrust and thrust_max under the propeller names
propeller_outputs ==
    <<Star, <<THRUST, "propeller_thrust">>, <<THRUST_MAX, "propeller_thrust_max">>>>

\* self.promotes(name, inputs=pin, outputs=pout): the lists are registered
\* for the subsystem, after those it already has
Promotes(subs, name, pin, pout) ==
    [k \in DOMAIN subs |->
        IF subs[k].name = name
        THEN [subs[k] EXCEPT !.promotes_inputs = @ \o pin,
                             !.promotes_outputs = @ \o pout]
        ELSE subs[k]]

\* rpm_ivc.add_output(Dynamic.Mission.RPM, ...): the constant source gets the port
AddRpmOutput(subs) ==
    [k \in DOMAIN subs |->
        IF subs[k].name = "fixed_rpm_source"
        THEN [subs[k] EXCEPT !.outputs = @ \cup {RPM}]
        ELSE subs[k]]

\* The exception that ends configure before anything is registered:
\* _get_subsystem returns None for a stage whose build_mission returned None
\* (lines 359, 373), and without the override the gearbox branch calls the
\* lists shp_outputs and gearbox_inputs instead of appending to them
\* (lines 477-478).
ConfigureError ==
    IF get_subsystem(subsystems, options.shaft_power_model.name) = 0
    THEN "AttributeError"
    ELSE IF has_gearbox /\ get_subsystem(subsystems, options.gearbox_model.name) = 0
    THEN "AttributeError"
    ELSE IF ~has_fixed_rpm /\ has_gearbox
    THEN "TypeError"
    ELSE "none"

\* the set the first loop runs over, the set the second loop runs over:
\* only the elements for which the body appends, the others leaving no trace
ShpLoopSet ==
    LET shp == subsystems[get_subsystem(subsystems, options.shaft_power_model.name)]
        gearbox == subsystems[get_subsystem(subsystems, options.gearbox_model.name)]
    IN  IF has_gearbox
        THEN ShpLoopVars(PromNameSet(shp.outputs), PromNameSet(gearbox.inputs))
        ELSE {}

PropLoopSet ==
    LET gearbox == subsystems[get_subsystem(subsystems, options.gearbox_model.name)]
        propeller == subsystems[get_subsystem(subsystems, propeller_model_name)]
    IN  IF has_gearbox
        THEN PropLoopVars(PromNameSet(propeller.inputs), PromNameSet(gearbox.outputs))
        ELSE {}

\* the lists configure collects when the loops visit their sets in the
\* orders shp_order, propeller_order
ConfigureLists(shp_order, propeller_order) ==
    LET shp == subsystems[get_subsystem(subsystems, options.shaft_power_model.name)]
        shp_output_set == PromNameSet(shp.outputs)
        gearbox == subsystems[get_subsystem(subsystems, options.gearbox_model.name)]
        gearbox_input_set == PromNameSet(gearbox.inputs)
        gearbox_output_set == PromNameSet(gearbox.outputs)
        s2g == IF has_gearbox
               THEN ShpToGearbox(shp_order, gearbox_input_set)
               ELSE [shp |-> <<>>, gearbox |-> <<>>]
    IN  [shp_outputs |->
            <<Star>> \o ShpThrustPromotions(shp_output_set) \o s2g.shp
            \o (IF has_fixed_rpm THEN OverrideShpPromotions(shp_output_set)
                ELSE <<>>),
         gearbox_inputs |->
            <<Star>> \o s2g.gearbox
            \o (IF has_fixed_rpm THEN OverrideGearboxPromotions ELSE <<>>),
         gearbox_outputs |->
            <<Star>> \o GearboxToPropeller(propeller_order, gearbox_output_set)]

\* self.promotes raises a RuntimeError ("Trying to promote 'x' when it has
\* been aliased to 'y'") when the inputs registered for the subsystem give
\* one port two different names.
AliasConflict(list) ==
    \E a \in Range(list), b \in Range(list) : a[1] = b[1] /\ a[2] # b[2]

\* the exception self.promotes raises for the gearbox at lines 499-501
PromotesError(shp_order) ==
    IF has_gearbox /\ AliasConflict(ConfigureLists(shp_order, <<>>).gearbox_inputs)
    THEN "RuntimeError" ELSE "none"

\* The subsystems with the promotions of a run of configure that passes
\* line 480: the constant source is promoted in the override branch, the
\* power source, the gearbox and the propeller in the PROMOTIONS section;
\* when self.promotes raises for the gearbox, what was registered before
\* stays registered.
Configured(shp_order, propeller_order) ==
    LET shp == subsystems[get_subsystem(subsystems, options.shaft_power_model.name)]
        gearbox == subsystems[get_subsystem(subsystems, options.gearbox_model.name)]
        lists == ConfigureLists(shp_order, propeller_order)
        s0 == IF has_fixed_rpm
              THEN Promotes(AddRpmOutput(subsystems), "fixed_rpm_source",
                            <<>>, FixedRpmSourcePromotions)
              ELSE subsystems
        s1 == Promotes(s0, shp.name, <<Star>>, lists.shp_outputs)
        s2 == IF has_gearbox
              THEN Promotes(s1, gearbox.name, lists.gearbox_inputs,
                            lists.gearbox_outputs)
              ELSE s1
    IN  IF PromotesError(shp_order) # "none" THEN s1
        ELSE Promotes(s2, propeller_model_name, <<Star>>, propeller_outputs)

\* <<subsystem, port, name>>: the outputs of the group's subsystems with the
\* name each is seen under at group level
ExposedOutputs(subs) ==
    UNION {{<<subs[k].name, p, PromName(subs[k].name, subs[k].promotes_outputs, p)>> :
               p \in subs[k].outputs} : k \in DOMAIN subs}

ExposedInputs(subs) ==
    UNION {{<<subs[k].name, p, PromName(subs[k].name, subs[k].promotes_inputs, p)>> :
               p \in subs[k].inputs} : k \in DOMAIN subs}

\* Two outputs seen under one name end construction with OpenMDAO's
\* RuntimeError when the group's variables are collected.
DuplicateOutputs(subs) ==
    \E a \in ExposedOutputs(subs), b \in ExposedOutputs(subs) :
        a # b /\ a[3] = b[3]

\* the collection of the group's variables without its checks
NoCollectError(subs) == "none"

\* what the framework raises when it collects the variables of the group
CollectError(subs) ==
    IF UnmatchedPromotion(subs) \/ DuplicateOutputs(subs)
    THEN "RuntimeError" ELSE "none"

configure ==
    /\ kind = "mission"
    /\ phase = "StagesInstantiated"
    /\ IF ConfigureError # "none"
       THEN /\ error' = ConfigureError
            /\ phase' = "ConfigureFailed"
            /\ UNCHANGED <<subsystems, rpm_ivc, warned>>
       ELSE /\ \E shp_order \in IterationOrders(ShpLoopSet),
                  propeller_order \in IterationOrders(PropLoopSet) :
                  LET subs == Configured(shp_order, propeller_order)
                      raised == IF PromotesError(shp_order) # "none"
                                THEN PromotesError(shp_order)
                                ELSE CollectError(subs)
                  IN  /\ subsystems' = subs
                      /\ error' = raised
                      /\ phase' = IF raised = "none" THEN "Wired"
                                  ELSE "ConfigureFailed"
            /\ rpm_ivc' = IF has_fixed_rpm
                          THEN <<[name |-> RPM, units |-> "rpm",
                                  val |-> fixed_rpm_nn(options.num_nodes, fixed_rpm)]>>
                          ELSE <<>>
            /\ warned' = IF has_fixed_rpm
                         THEN OverrideWarnings(
                                 PromNameSet(subsystems[get_subsystem(subsystems,
                                     options.shaft_power_model.name)].outputs),
                                 options.shaft_power_model.name)
                         ELSE <<>>
    /\ ReadOnly
    /\ UNCHANGED <<kind, options, received, values>>

\* ------------------------------------------ thrust_adder, max_thrust_adder
\* np.zeros(num_nodes), the value the adders' variables are declared with
np_zeros(num_nodes) == [i \in 1..num_nodes |-> 0]

\* what the stages may compute in a run: the power source's thrust and
\* thrust_max, the propeller's thrust and thrust_max, one value per node
StageThrusts(num_nodes) ==
    {[shp_thrust |-> [i \in 1..num_nodes |-> a * i],
      shp_thrust_max |-> [i \in 1..num_nodes |-> a * i + 100],
      propeller_thrust |-> [i \in 1..num_nodes |-> b + i],
      propeller_thrust_max |-> [i \in 1..num_nodes |-> b + i + 200]] :
        <<a, b>> \in {<<2, 10>>, <<3, 40>>}}

\* The value of an adder's input: the output some subsystem exposes under
\* the input's name, or the declared value when nothing is connected to it.
AdderInput(name, shp_value, propeller_value) ==
    LET producers == {o \in ExposedOutputs(subsystems) : o[3] = name}
    IN  IF producers = {} THEN np_zeros(options.num_nodes)
        ELSE IF (CHOOSE o \in producers : TRUE)[1] = options.shaft_power_model.name
        THEN shp_value
        ELSE propeller_value

\* an adder that passes its first operand on
FirstOperandOnly(a, b) == a

\* 'turboprop_thrust=turboshaft_thrust+propeller_thrust' on arrays of
\* num_nodes values (and the same expression for thrust_max)
thrust_adder(a, b) == [i \in DOMAIN a |-> a[i] + b[i]]

\* a run of the wired group: the stages compute, the adders add
run_model ==
    /\ kind = "mission"
    /\ phase = "Wired"
    /\ values = NoValues
    /\ \E v \in StageThrusts(options.num_nodes) :
          values' =
            [shp_thrust |-> v.shp_thrust,
             shp_thrust_max |-> v.shp_thrust_max,
             propeller_thrust |-> v.propeller_thrust,
             propeller_thrust_max |-> v.propeller_thrust_max,
             thrust |-> thrust_adder(
                 AdderInput("turboshaft_thrust", v.shp_thrust, v.propeller_thrust),
                 AdderInput("propeller_thrust", v.shp_thrust, v.propeller_thrust)),
             thrust_max |-> thrust_adder(
                 AdderInput("turboshaft_thrust_max", v.shp_thrust_max,
                            v.propeller_thrust_max),
                 AdderInput("propeller_thrust_max", v.shp_thrust_max,
                            v.propeller_thrust_max))]
    /\ ReadOnly
    /\ UNCHANGED <<kind, phase, options, subsystems, rpm_ivc, warned,
                   received, error>>

Next ==
    \/ build_pre_mission
    \/ build_mission
    \/ TurbopropMissionNoGearbox
    \/ build_post_mission
    \/ setup
    \/ configure
    \/ run_model

Spec == Init /\ [][Next]_vars

SpecKwargs == InitKwargs /\ [][Next]_vars

\* ------------------------------------------------------------ vocabulary
\* the subsystem of the group that realizes a stage (0: none)
RoleIndex(role) ==
    LET idx == {k \in DOMAIN subsystems : subsystems[k].role = role}
    IN  IF idx = {} THEN 0 ELSE CHOOSE k \in idx : TRUE

HasRole(role) == RoleIndex(role) # 0
Shp == subsystems[RoleIndex("shp")]
Gearbox == subsystems[RoleIndex("gearbox")]
Propeller == subsystems[RoleIndex("propeller")]

\* the alias edges registered for a subsystem: <<port, alias>>
OutputAliases(sub) == {e \in Range(sub.promotes_outputs) : e # Star}
InputAliases(sub) == {e \in Range(sub.promotes_inputs) : e # Star}

EndsWith(s, suffix) ==
    /\ Len(s) >= Len(suffix)
    /\ SubSeq(s, Len(s) - Len(suffix) + 1, Len(s)) = suffix

\* configure has run on the mission group
ConfigureRan == kind = "mission" /\ phase \in {"Wired", "ConfigureFailed"}
\* configure has run to its end: all promotions are registered
Registered ==
    /\ ConfigureRan
    /\ \E k \in DOMAIN subsystems :
          subsystems[k].role = "propeller" /\ subsystems[k].promotes_outputs # <<>>
\* per-node construction has completed without error
Completed == kind = "mission" /\ phase = "Wired"
\* every stage of the configuration has yielded its per-node computation
StagesRealized ==
    /\ HasRole("shp")
    /\ has_gearbox => HasRole("gearbox")
    /\ HasRole("propeller") /\ Propeller.children # <<>>

\* ------------------------------------------------------------------- C1
\* C1: with a gearbox present, no fixed-RPM override and a power source that
\* has the RPM output, configure completes without error and the wiring holds
\* the edges power-source rpm -> rpm_gearbox and gearbox rpm_in -> rpm_gearbox.
\* The code calls the two lists instead of appending to them (lines 477-478):
\* configure ends with a TypeError and nothing is registered.
C1_GearboxRpmFedByPowerSource ==
    (ConfigureRan /\ StagesRealized /\ has_gearbox /\ ~has_fixed_rpm
        /\ RPM \in Shp.outputs)
    => /\ phase = "Wired"
       /\ <<RPM, RPM \o "_gearbox">> \in OutputAliases(Shp)
       /\ <<RPM \o "_in", RPM \o "_gearbox">> \in InputAliases(Gearbox)

\* ------------------------------------------------------------------- C2
\* the edges of the power-source -> gearbox rule for port v
ShpGearboxEdgesAsStated(v) ==
    LET alias == v \o "_gearbox"
        on_shp == {e \in OutputAliases(Shp) : e[2] = alias}
        on_gearbox == {e \in InputAliases(Gearbox) : e[2] = alias}
    IN  IF v = RPM
        THEN has_fixed_rpm => (on_shp = {} /\ on_gearbox = {})
        ELSE IF v \in Gearbox.inputs
        THEN on_shp = {<<v, alias>>} /\ on_gearbox = {<<v, alias>>}
        ELSE IF (v \o "_in") \in Gearbox.inputs
        THEN on_shp = {<<v, alias>>} /\ on_gearbox = {<<v \o "_in", alias>>}
        ELSE on_shp = {} /\ on_gearbox = {}

\* C2: with a gearbox present, for every power-source output v other than the
\* RPM port the wiring holds exactly the edges v -> v_gearbox on the power
\* source and v (or v_in) -> v_gearbox on the gearbox when the gearbox has the
\* input v (or v_in), and none otherwise; the RPM port gets no alias from the
\* rule.  Without the override configure ends at line 477 (C1) before the
\* edges are registered.
C2_ShpToGearboxRule ==
    (ConfigureRan /\ StagesRealized /\ has_gearbox)
    => \A v \in Shp.outputs : ShpGearboxEdgesAsStated(v)

\* The rule as the code applies it whenever configure reaches PROMOTIONS.
ShpToGearboxRuleOnceRegistered ==
    (Registered /\ has_gearbox)
    => \A v \in Shp.outputs : ShpGearboxEdgesAsStated(v)

\* ------------------------------------------------------------------- C3
\* C3: with a fixed-RPM override, in every wired pipeline the power source's
\* own RPM output is not exposed as rpm and no input is connected to it; the
\* gearbox input rpm_in (gearbox present) or the exposed rpm (gearbox absent)
\* has the constant source as its only producer.
C3_OverrideReplacesShpRpm ==
    (Completed /\ has_fixed_rpm)
    => LET outs == ExposedOutputs(subsystems)
           ins == ExposedInputs(subsystems)
       IN  /\ \A o \in outs :
                (o[1] = Shp.name /\ o[2] = RPM)
                => (o[3] # RPM /\ \A i \in ins : i[3] # o[3])
           /\ has_gearbox =>
                /\ (RPM \o "_in") \in Gearbox.inputs
                /\ {o \in outs : o[3] = PromName(Gearbox.name,
                                     Gearbox.promotes_inputs, RPM \o "_in")}
                   = {<<"fixed_rpm_source", RPM, "fixed_rpm">>}
           /\ ~has_gearbox =>
                {o \in outs : o[3] = RPM} = {<<"fixed_rpm_source", RPM, RPM>>}

\* a wired pipeline with the override, a gearbox, and a power source that
\* computes an RPM of its own
C3_Witness ==
    /\ Completed /\ has_fixed_rpm /\ has_gearbox
    /\ RPM \in Shp.outputs
    /\ RPM \in Propeller.inputs

\* ------------------------------------------------------------------- C4
\* C4: the constant added to fixed_rpm_source is an array of length num_nodes
\* whose every element is the override value, and it is added in every run of
\* configure that completes with the override configured.
C4_FixedRpmArray ==
    /\ (kind = "mission" /\ rpm_ivc # <<>>)
       => /\ Len(rpm_ivc) = 1
          /\ rpm_ivc[1].name = RPM
          /\ rpm_ivc[1].val \in [1..options.num_nodes -> {fixed_rpm}]
    /\ (Completed /\ has_fixed_rpm) => rpm_ivc # <<>>

\* one node: the constant is the array of length 1
C4_Witness ==
    /\ Completed /\ has_fixed_rpm
    /\ options.num_nodes = 1
    /\ rpm_ivc # <<>> /\ rpm_ivc[1].val = <<fixed_rpm>>

\* ------------------------------------------------------------------- C5
\* the exposed thrust is the output of thrust_adder, whose two inputs are the
\* power-source thrust and the propeller thrust
ThrustIsSum ==
    LET outs == ExposedOutputs(subsystems)
    IN  /\ {o \in outs : o[3] = THRUST}
           = {<<"thrust_adder", "turboprop_thrust", THRUST>>}
        /\ {o[1] : o \in {x \in outs : x[3] = "propeller_thrust"}}
           = {Propeller.name}
        /\ {o[1] : o \in {x \in outs : x[3] = "turboshaft_thrust"}}
           \subseteq {Shp.name}

\* no gearbox stage and no alias ending in _gearbox
NoGearboxEdges ==
    /\ ~HasRole("gearbox")
    /\ \A k \in DOMAIN subsystems :
         \A e \in OutputAliases(subsystems[k]) \cup InputAliases(subsystems[k]) :
            ~EndsWith(e[2], "_gearbox")

\* C5: with the gearbox absent, per-node construction (setup, then configure)
\* completes without error for every configuration whose propeller instances
\* are realized, the wiring has no edge with an alias ending in _gearbox, and
\* thrust is the sum of power-source thrust and propeller thrust.  A power
\* source whose build_mission returns None ends configure with an
\* AttributeError (C13).
C5_NoGearboxCompletes ==
    (ConfigureRan /\ ~has_gearbox /\ HasRole("propeller")
        /\ Propeller.children # <<>>)
    => /\ phase = "Wired"
       /\ NoGearboxEdges
       /\ ThrustIsSum

\* With the gearbox absent and every stage realized, configure completes, the
\* wiring has no gearbox edge and the exposed thrust is that of the adder.
NoGearboxWiring ==
    (ConfigureRan /\ ~has_gearbox /\ StagesRealized)
    => /\ Completed
       /\ NoGearboxEdges
       /\ ThrustIsSum

C7_GearboxToPropellerRule ==
    (ConfigureRan /\ StagesRealized /\ has_gearbox)
    => /\ \A v \in PromNameSet(Propeller.inputs) :
            (<<v \o "_out", v>> \in OutputAliases(Gearbox))
            <=> ((v \o "_out") \in Gearbox.outputs)
       /\ \A e \in OutputAliases(Gearbox) :
            e[1] = e[2] \o "_out" /\ e[2] \in PromNameSet(Propeller.inputs)
       /\ InputAliases(Propeller) = {}
       /\ Star \in Range(Propeller.promotes_inputs)

\* The rule as the code applies it whenever configure reaches PROMOTIONS.
GearboxToPropellerRuleOnceRegistered ==
    (Registered /\ has_gearbox)
    => /\ \A v \in PromNameSet(Propeller.inputs) :
            (<<v \o "_out", v>> \in OutputAliases(Gearbox))
            <=> ((v \o "_out") \in Gearbox.outputs)
       /\ \A e \in OutputAliases(Gearbox) :
            e[1] = e[2] \o "_out" /\ e[2] \in PromNameSet(Propeller.inputs)
       /\ InputAliases(Propeller) = {}
       /\ Star \in Range(Propeller.promotes_inputs)

\* ------------------------------------------------------------------- C8
\* the power source's thrust outputs are exposed under the turboshaft names
\* and its unaliased outputs under their own names
ShpExposedAsStated ==
    /\ (<<THRUST, "turboshaft_thrust">> \in OutputAliases(Shp))
       <=> (THRUST \in Shp.outputs)
    /\ (<<THRUST_MAX, "turboshaft_thrust_max">> \in OutputAliases(Shp))
       <=> (THRUST_MAX \in Shp.outputs)
    /\ \A v \in Shp.outputs :
         (\A e \in OutputAliases(Shp) : e[1] # v)
         => PromName(Shp.name, Shp.promotes_outputs, v) = v

\* C8: in every run of configure the power source's thrust is aliased to
\* turboshaft_thrust and its thrust_max to turboshaft_thrust_max exactly when
\* it has them, and every output without an alias is exposed under its own
\* name.  With a gearbox and no override configure ends at line 477 (C1) and
\* the power source is promoted under no name at all.
C8_ShpExposedRule ==
    (ConfigureRan /\ StagesRealized) => ShpExposedAsStated

\* The rule as the code applies it whenever configure reaches PROMOTIONS.
ShpExposedRuleOnceRegistered ==
    Registered => ShpExposedAsStated

\* ------------------------------------------------------------------- C9
\* C9: in every wired pipeline the propeller group's thrust and thrust_max are
\* exposed as propeller_thrust and propeller_thrust_max, and every other
\* output of the propeller computation is exposed under its own name.  The
\* instances of a caller's propeller promote only their thrust into the
\* group (lines 249, 263), so any other output stays under
\* <name>_base.<output>.
C9_PropellerOutputsExposed ==
    Completed
    => LET outs == ExposedOutputs(subsystems)
           from_prop == {o \in outs : o[1] = Propeller.name}
       IN  /\ <<Propeller.name, THRUST, "propeller_thrust">> \in from_prop
           /\ <<Propeller.name, THRUST_MAX, "propeller_thrust_max">> \in from_prop
           /\ \A o \in from_prop :
                o[2] \in {THRUST, THRUST_MAX}
                => o[3] \in {"propeller_thrust", "propeller_thrust_max"}
           /\ \A k \in DOMAIN Propeller.children :
                \A p \in Propeller.children[k].outputs \ {THRUST} :
                   \E o \in from_prop : o[3] = p

\* The exposure that holds in every wired pipeline: the two thrusts, and the
\* other outputs of the default propeller.
PropellerThrustExposed ==
    Completed
    => LET outs == ExposedOutputs(subsystems)
           from_prop == {o \in outs : o[1] = Propeller.name}
       IN  /\ <<Propeller.name, THRUST, "propeller_thrust">> \in from_prop
           /\ <<Propeller.name, THRUST_MAX, "propeller_thrust_max">> \in from_prop
           /\ \A o \in from_prop :
                o[2] \in {THRUST, THRUST_MAX}
                => o[3] \in {"propeller_thrust", "propeller_thrust_max"}
           /\ options.propeller_model = None
              => \A p \in Propeller.children[1].outputs \ {THRUST} :
                    \E o \in from_prop : o[3] = p

\* ------------------------------------------------------------------ C10
\* the name an instance's port has inside the propeller group
InGroupInput(inst, p) == PromName(inst.name, inst.promotes_inputs, p)
InGroupOutput(inst, p) == PromName(inst.name, inst.promotes_outputs, p)

\* C10: whenever setup realizes the propeller, it is two instances of the one
\* computation: one takes shaft_power and yields thrust, the other takes
\* shaft_power_max and yields thrust_max, and every other input has the same
\* name in both.
C10_PropellerDuplicated ==
    (kind = "mission" /\ HasRole("propeller") /\ Propeller.children # <<>>)
    => LET kids == Propeller.children
       IN  /\ Len(kids) = 2
           /\ kids[1].inputs = kids[2].inputs
           /\ kids[1].outputs = kids[2].outputs
           /\ InGroupOutput(kids[1], THRUST) = THRUST
           /\ InGroupInput(kids[1], SHAFT_POWER) = SHAFT_POWER
           /\ InGroupOutput(kids[2], THRUST) = THRUST_MAX
           /\ InGroupInput(kids[2], SHAFT_POWER) = SHAFT_POWER_MAX
           /\ \A p \in kids[1].inputs \ {SHAFT_POWER} :
                /\ InGroupInput(kids[1], p) = InGroupInput(kids[2], p)
                /\ InGroupInput(kids[1], p) = p

\* a caller's propeller with an input besides shaft power, realized twice
C10_Witness ==
    /\ kind = "mission" /\ phase = "StagesInstantiated"
    /\ options.propeller_model # None
    /\ HasRole("propeller") /\ Len(Propeller.children) = 2
    /\ RPM \in Propeller.children[1].inputs
    /\ SHAFT_POWER \in Propeller.children[2].inputs

\* ------------------------------------------------------------------ C11
\* C11: with no fixed-RPM override, a gearbox present and a power source
\* whose manifest has no RPM output, wiring ends with the configuration error
\* that names the stage and the port that found no match (the framework's
\* RuntimeError for the promotion rpm -> rpm_gearbox), and no pipeline is
\* wired.  The run ends at line 477 instead, with the TypeError of C1, which
\* names neither.
C11_MissingRpmIsConfigurationError ==
    (ConfigureRan /\ StagesRealized /\ has_gearbox /\ ~has_fixed_rpm
        /\ RPM \notin Shp.outputs)
    => (phase = "ConfigureFailed" /\ error = "RuntimeError")

\* ------------------------------------------------------------------ C13
\* C13: a stage whose build returns None for a phase is left out of that
\* phase's composite and the phase is still constructed without error: the
\* pre-mission composite is built without error, and a per-node group in
\* which the power source, the gearbox or the caller's propeller yielded no
\* computation is wired by configure.  configure takes the subsystem of
\* every stage for granted: list_outputs is called on the None that
\* _get_subsystem returns (lines 358-359, 372-373), and the thrust aliases of
\* an empty propeller group match nothing (lines 407-411).
C13_NoneStageOmitted ==
    /\ kind = "pre_mission" => error = "none"
    /\ (ConfigureRan /\ ~StagesRealized) => Completed

\* ------------------------------------------------------------------ C12
\* a power-source output v that passes through under its own name while the
\* gearbox output v_out is aliased to v for the propeller
PassThroughCollision ==
    \E v \in Shp.outputs \ {RPM, THRUST, THRUST_MAX} :
        /\ v \notin Gearbox.inputs /\ (v \o "_in") \notin Gearbox.inputs
        /\ (v \o "_out") \in Gearbox.outputs
        /\ v \in Propeller.inputs

\* a power-source output literally named x_gearbox next to an output x that
\* is aliased to x_gearbox
LiteralAliasCollision ==
    \E x \in Shp.outputs \ {RPM} :
        /\ (x \o "_gearbox") \in Shp.outputs
        /\ x \in Gearbox.inputs \/ (x \o "_in") \in Gearbox.inputs

\* C12: when two different producer ports would be exposed under one name
\* through different wiring rules, wiring ends with the ambiguity error (the
\* framework's RuntimeError for two outputs under one promoted name) and no
\* pipeline is wired.  Without the override the run ends at line 477 instead,
\* with the TypeError of C1.
C12_AmbiguityRaises ==
    (ConfigureRan /\ StagesRealized /\ has_gearbox
        /\ (PassThroughCollision \/ LiteralAliasCollision))
    => (phase = "ConfigureFailed" /\ error = "RuntimeError")

\* With the override configured the two collisions end in the RuntimeError,
\* and no wired pipeline has two producers under one name.
AmbiguityRaisesOnceRegistered ==
    /\ (ConfigureRan /\ StagesRealized /\ has_gearbox /\ has_fixed_rpm
           /\ (PassThroughCollision \/ LiteralAliasCollision))
       => (phase = "ConfigureFailed" /\ error = "RuntimeError")
    /\ Completed => ~DuplicateOutputs(subsystems)

\* ------------------------------------------------------------------ C14
\* no promotion is registered for the four stages, no constant is added
NothingRegistered ==
    /\ rpm_ivc = <<>>
    /\ \A k \in DOMAIN subsystems :
         subsystems[k].role \in {"shp", "gearbox", "propeller", "fixed_rpm_source"}
         => /\ subsystems[k].promotes_inputs = <<>>
            /\ subsystems[k].promotes_outputs = <<>>

\* C14 as stated: in every run of configure that raises, no promotion has
\* been registered for the power source, the gearbox, the propeller or the
\* constant source when the error is raised.
C14_NoEdgeBeforeError ==
    (kind = "mission" /\ phase = "ConfigureFailed" /\ ~Registered)
    => NothingRegistered

\* C14: every error of per-node construction ends it without a wired
\* pipeline, and no wired pipeline has a promotion without a match or two
\* producers under one name; the AttributeError (a stage that yielded no
\* computation) and the TypeError (line 477) are raised before anything is
\* registered.  A RuntimeError is raised with promotions registered: by
\* self.promotes for the gearbox after the promotions of the constant source
\* and of the power source, by the framework after configure has registered
\* them all.
C14_ErrorsAbortConstruction ==
    /\ (kind = "mission" /\ error # "none")
       => phase \in {"SetupFailed", "ConfigureFailed"}
    /\ Completed
       => (error = "none" /\ ~DuplicateOutputs(subsystems)
              /\ ~UnmatchedPromotion(subsystems))
    /\ (kind = "mission" /\ phase = "ConfigureFailed"
           /\ error \in {"AttributeError", "TypeError"})
       => NothingRegistered
    /\ (kind = "mission" /\ phase = "ConfigureFailed" /\ error = "RuntimeError")
       => ~NothingRegistered

\* self.promotes raised for the gearbox: the constant source and the power
\* source are promoted, the gearbox and the propeller are not
C14_Witness ==
    /\ kind = "mission" /\ phase = "ConfigureFailed" /\ error = "RuntimeError"
    /\ ~Registered
    /\ HasRole("shp") /\ Shp.promotes_outputs # <<>>
    /\ HasRole("gearbox") /\ Gearbox.promotes_inputs = <<>>
    /\ rpm_ivc # <<>>

\* ------------------------------------------------------------------ C16
\* the alias edges of every subsystem, as sets
EdgeSets(subs) ==
    [k \in DOMAIN subs |->
        [inputs |-> InputAliases(subs[k]), outputs |-> OutputAliases(subs[k])]]

\* C16: wiring is deterministic: whatever the orders in which the two loops
\* of configure visit their sets, a run of configure on the same stages,
\* manifests, gearbox presence and override setting registers the same set
\* of alias edges for every stage and ends the same way.
C16_WiringDeterministic ==
    [][(configure /\ ConfigureError = "none")
       => \A shp_order \in IterationOrders(ShpLoopSet),
             propeller_order \in IterationOrders(PropLoopSet) :
             /\ EdgeSets(subsystems')
                = EdgeSets(Configured(shp_order, propeller_order))
             /\ (error' = "none")
                <=> /\ PromotesError(shp_order) = "none"
                    /\ CollectError(Configured(shp_order, propeller_order)) = "none"]_vars

\* a wired pipeline whose gearbox aliases were collected with rpm_out before
\* shaft_power_out; the other order is a run of its own
C16_Witness ==
    /\ Completed /\ has_gearbox
    /\ Gearbox.promotes_outputs
       = <<Star, <<RPM \o "_out", RPM>>, <<SHAFT_POWER \o "_out", SHAFT_POWER>>>>

C16_WitnessOtherOrder ==
    /\ Completed /\ has_gearbox
    /\ Gearbox.promotes_outputs
       = <<Star, <<SHAFT_POWER \o "_out", SHAFT_POWER>>, <<RPM \o "_out", RPM>>>>

\* ------------------------------------------------------------------ C17
\* the gearbox inputs bound to the constant
BoundToConstant == {e \in InputAliases(Gearbox) : e[2] = "fixed_rpm"}

\* C17: with the override and a gearbox, the constant is bound to the
\* gearbox input rpm when the gearbox manifest has it, else to rpm_in when
\* the manifest has that, so the bound port is always a port of the gearbox;
\* without a gearbox the constant is exposed as the pipeline's rpm.  Stated of
\* the runs in which every stage's promotions were registered.  The code
\* binds rpm_in whatever the manifest contains.
C17_ConstantBoundByConvention ==
    (Registered /\ has_fixed_rpm)
    => IF has_gearbox
       THEN /\ RPM \in Gearbox.inputs => BoundToConstant = {<<RPM, "fixed_rpm">>}
            /\ (RPM \notin Gearbox.inputs /\ (RPM \o "_in") \in Gearbox.inputs)
               => BoundToConstant = {<<RPM \o "_in", "fixed_rpm">>}
            /\ \A e \in BoundToConstant : e[1] \in Gearbox.inputs
       ELSE <<"fixed_rpm_source", RPM, RPM>> \in ExposedOutputs(subsystems)

\* What the code does in every run that reaches PROMOTIONS with the
\* override: the gearbox input rpm_in, and no other, is bound to the
\* constant; the pipeline is wired only if the gearbox has that input; with
\* no gearbox the constant is exposed as rpm.
ConstantBoundToRpmIn ==
    (Registered /\ has_fixed_rpm)
    => IF has_gearbox
       THEN /\ BoundToConstant = {<<RPM \o "_in", "fixed_rpm">>}
            /\ Completed => (RPM \o "_in") \in Gearbox.inputs
       ELSE <<"fixed_rpm_source", RPM, RPM>> \in ExposedOutputs(subsystems)

\* ------------------------------------------------------------------ C18
\* the alias edges registered for output port p of a subsystem
AliasesOf(sub, p) == {e \in OutputAliases(sub) : e[1] = p}

\* the names output port p of the k-th subsystem is exposed under
ExposedNames(k, p) ==
    {o[3] : o \in {x \in ExposedOutputs(subsystems) :
                      x[1] = subsystems[k].name /\ x[2] = p}}

\* C18: in a completed wiring every producer port has at most one
\* alias edge, is exposed under that alias only, and not under its own name.
C18_AtMostOneAlias ==
    Completed
    => \A k \in DOMAIN subsystems : \A p \in subsystems[k].outputs :
          /\ Cardinality(AliasesOf(subsystems[k], p)) <= 1
          /\ \A e \in AliasesOf(subsystems[k], p) : ExposedNames(k, p) = {e[2]}

\* What holds: in a completed wiring a producer port that has alias edges is
\* exposed under exactly one name, the alias of the edge registered last, and under
\* its own name only if that alias is its own name; a port may have two alias
\* edges (the power source's thrust, aliased to turboshaft_thrust and, for a
\* gearbox that takes thrust, to thrust_gearbox).
C18_AliasedPortExposedOnce ==
    Completed
    => \A k \in DOMAIN subsystems : \A p \in subsystems[k].outputs :
          AliasesOf(subsystems[k], p) # {}
          => LET list == subsystems[k].promotes_outputs
             IN  /\ \E i \in DOMAIN list :
                       /\ list[i] # Star /\ list[i][1] = p
                       /\ \A j \in DOMAIN list :
                             (list[j] # Star /\ list[j][1] = p) => j <= i
                       /\ ExposedNames(k, p) = {list[i][2]}
                       /\ list[i][2] # p => p \notin ExposedNames(k, p)
                 /\ Cardinality(AliasesOf(subsystems[k], p)) <= 2

\* the power source's thrust carries two alias edges in a wired pipeline
C18_Witness ==
    /\ Completed /\ has_gearbox
    /\ AliasesOf(Shp, THRUST)
       = {<<THRUST, "turboshaft_thrust">>, <<THRUST, THRUST \o "_gearbox">>}

\* ------------------------------------------------------------------ C19
\* no alias is registered for any subsystem of the composite and each of its
\* ports is seen one level up under its own name
PassedThrough(subs) ==
    \A k \in DOMAIN subs :
        /\ OutputAliases(subs[k]) = {} /\ InputAliases(subs[k]) = {}
        /\ \A p \in subs[k].outputs : <<subs[k].name, p, p>> \in ExposedOutputs(subs)
        /\ \A p \in subs[k].inputs : <<subs[k].name, p, p>> \in ExposedInputs(subs)

\* C19: build_pre_mission and build_post_mission register no alias, and every
\* port of every stage they include is exposed under its own name; a stage
\* whose build returned a computation is included, so the call ends without
\* an exception.  build_post_mission ends with a TypeError instead of
\* including such a stage.
C19_StaticPhasesPassThrough ==
    kind \in {"pre_mission", "post_mission"}
    => /\ error = "none"
       /\ PassedThrough(subsystems)

\* What holds of build_pre_mission: every included stage is promoted with
\* the wildcard alone.
PreMissionPassThrough ==
    kind = "pre_mission" => (error = "none" /\ PassedThrough(subsystems))

PreMissionStageIncluded ==
    kind = "pre_mission" /\ Len(subsystems) = 3

\* ------------------------------------------------------------------ C20
\* the key a stage's parameters are kept under: the stage's name, and
\* hamilton_standard for the default propeller
StageId(stage) ==
    IF stage = "shp" THEN shaft_power_model.name
    ELSE IF stage = "gearbox" THEN gearbox_model.name
    ELSE IF propeller_model = None THEN "hamilton_standard"
    ELSE propeller_model.name

\* every build call made to the stage received the parameters kept under
\* the stage's own id, the empty set when the mapping has no such key
ReceivedOwnParams(stage) ==
    \A i \in DOMAIN received[stage] :
        received[stage][i] = KwargsFor(kwargs, StageId(stage))

\* C20: in every build phase (pre-mission, per-node, post-mission) each stage
\* receives exactly the parameters stored under its own id in the kwargs
\* mapping, the empty set if its id is not a key.  build_pre_mission and
\* build_post_mission hand the whole mapping to every stage.
C20_StageReceivesOwnParams ==
    \A stage \in {"shp", "gearbox", "propeller"} : ReceivedOwnParams(stage)

\* What holds: the per-node phase passes each stage its own parameters, and
\* no build phase raises because a stage's id is missing from the mapping.
PerNodeStageReceivesOwnParams ==
    /\ kind = "mission"
       => \A stage \in {"shp", "gearbox", "propeller"} : ReceivedOwnParams(stage)
    /\ (kind = "mission" /\ phase = "StagesInstantiated") => error = "none"
    /\ kind = "pre_mission" => error = "none"

\* the per-node phase has handed a caller's power source its parameters and
\* a gearbox without an entry the empty set
PerNodeParamsDelivered ==
    /\ kind = "mission" /\ phase = "StagesInstantiated"
    /\ received.shp = <<{<<"option", 1>>}>>
    /\ received.gearbox = <<{}>>

\* ------------------------------------------------------------------ C15
Evaluated == kind = "mission" /\ phase = "Wired" /\ values # NoValues

\* some subsystem exposes an output under the name
HasProducer(name) == \E o \in ExposedOutputs(subsystems) : o[3] = name

\* C15: after a run of the wired pipeline, the exposed thrust is, node by
\* node, turboshaft_thrust + propeller_thrust, and thrust_max is
\* turboshaft_thrust_max + propeller_thrust_max, where an operand nothing
\* produces counts as zero at every node; both arrays have num_nodes entries,
\* and without a producer of the turboshaft operand the total is the
\* propeller's operand.
C15_ThrustCombination ==
    Evaluated
    => /\ DOMAIN values.thrust = 1..options.num_nodes
       /\ DOMAIN values.thrust_max = 1..options.num_nodes
       /\ \A i \in 1..options.num_nodes :
             /\ values.thrust[i]
                = (IF HasProducer("turboshaft_thrust")
                      THEN values.shp_thrust[i] ELSE 0)
                  + (IF HasProducer("propeller_thrust")
                        THEN values.propeller_thrust[i] ELSE 0)
             /\ values.thrust_max[i]
                = (IF HasProducer("turboshaft_thrust_max")
                      THEN values.shp_thrust_max[i] ELSE 0)
                  + (IF HasProducer("propeller_thrust_max")
                        THEN values.propeller_thrust_max[i] ELSE 0)
       /\ ~HasProducer("turboshaft_thrust")
          => values.thrust = values.propeller_thrust

\* a run over two nodes in which both operands of thrust have a producer
C15_Witness ==
    /\ Evaluated /\ options.num_nodes = MaxNodes
    /\ HasProducer("turboshaft_thrust") /\ HasProducer("propeller_thrust")
    /\ values.thrust = <<2 * 1 + 10 + 1, 2 * 2 + 10 + 2>>

\* a run in which the power source has no thrust output: the total is the
\* propeller's thrust
C15_WitnessAbsentOperand ==
    /\ Evaluated /\ options.num_nodes = MaxNodes
    /\ THRUST \notin Shp.outputs
    /\ values.thrust = values.propeller_thrust
    /\ values.thrust_max # values.propeller_thrust_max

\* ------------------------------------------------------------------ C26
\* C26: the configuration is read-only after construction: every step of
\* every sequence of build_pre_mission, build_mission, setup, configure and
\* build_post_mission calls leaves the three stage references of the model
\* and the override entry of the supplied inputs as they were.
C26_ConfigurationReadOnly ==
    [][/\ shaft_power_model' = shaft_power_model
       /\ gearbox_model' = gearbox_model
       /\ propeller_model' = propeller_model
       /\ aviary_inputs'.fixed_rpm = aviary_inputs.fixed_rpm]_vars

\* a pipeline was built, set up and wired with the override, and the model
\* and the inputs are those of a caller who gave a gearbox and a propeller
C26_Witness ==
    /\ Completed /\ has_fixed_rpm /\ rpm_ivc # <<>>
    /\ gearbox_model = UserGearbox /\ propeller_model = UserProp
    /\ shaft_power_model = UserShp

\* ------------------------------------------------------------------ C25
\* C25: after construction the power source and the gearbox of the model are
\* never None (an EngineDeck, the default GearboxBuilder, or the caller's
\* stage); the group build_mission returns carries both, the steps that
\* follow its construction (setup, configure, a run: those that leave the
\* group past Declared) keep them, and a pipeline wired from such a group has
\* the power source and the gearbox among its subsystems; the propeller may
\* be None.
C25_StagesNeverNone ==
    /\ [](/\ shaft_power_model \in {EngineDeck, UserShp}
          /\ gearbox_model \in {GearboxBuilder, UserGearbox}
          /\ propeller_model \in {None, UserProp})
    /\ [][build_mission
          => /\ options'.shaft_power_model = shaft_power_model
             /\ options'.gearbox_model = gearbox_model
             /\ options'.propeller_model = propeller_model]_vars
    /\ [][phase' \notin {"none", "Declared"} => options' = options]_vars
    /\ []((Completed /\ has_gearbox) => (HasRole("shp") /\ HasRole("gearbox")))

\* the model was constructed with no stage given, and the pipeline built from
\* it is wired with the EngineDeck and the default gearbox in it
C25_Witness ==
    /\ shaft_power_model = EngineDeck /\ gearbox_model = GearboxBuilder
    /\ propeller_model = None
    /\ Completed /\ options.gearbox_model = GearboxBuilder
    /\ HasRole("shp") /\ HasRole("gearbox") /\ HasRole("propeller")

\* ------------------------------------------------------------------ C21
\* configure has gone past the reading of the manifests: the power source
\* and, if there is one, the gearbox are subsystems of the group
ManifestsRead ==
    /\ ConfigureRan /\ HasRole("shp")
    /\ has_gearbox => HasRole("gearbox")

\* the override is in place: the constant is an output of fixed_rpm_source,
\* which is promoted, and the power source's own rpm is aliased away
ConstantInPlace ==
    /\ rpm_ivc = <<[name |-> RPM, units |-> "rpm",
                    val |-> [i \in 1..options.num_nodes |-> fixed_rpm]]>>
    /\ \E k \in DOMAIN subsystems :
          /\ subsystems[k].role = "fixed_rpm_source"
          /\ subsystems[k].promotes_outputs
             = (IF has_gearbox THEN <<<<RPM, "fixed_rpm">>>> ELSE <<Star>>)
    /\ RPM \in Shp.outputs
       => <<RPM, "AUTO_OVERRIDE:" \o RPM>> \in OutputAliases(Shp)

\* C21 as stated: the warning is emitted exactly when the override is
\* configured, the power source's manifest has rpm and the verbosity is at
\* least BRIEF, and in every run that emits it wiring completes with the
\* constant in place.
C21_WarningRunCompletes ==
    /\ ManifestsRead
       => (warned # <<>>
           <=> (has_fixed_rpm /\ RPM \in Shp.outputs
                /\ aviary_inputs.verbosity >= BRIEF))
    /\ (kind = "mission" /\ warned # <<>>) => (Completed /\ ConstantInPlace)

\* C21: in a run of configure that has read the manifests, the warning is
\* emitted exactly when the override is configured, the power source's
\* manifest has rpm and the verbosity is at least BRIEF (one warning, naming
\* the power source and the value); before that point none is emitted.  The
\* warning ends nothing: with or without it the constant is put in place,
\* and a run that emitted it is wired unless the gearbox promotions or the
\* collection of the variables raise, which they do at either verbosity.
C21_WarningNonFatal ==
    /\ ManifestsRead
       => (warned # <<>>
           <=> (has_fixed_rpm /\ RPM \in Shp.outputs
                /\ aviary_inputs.verbosity >= BRIEF))
    /\ ~ManifestsRead => warned = <<>>
    /\ warned # <<>>
       => warned = <<[stage |-> options.shaft_power_model.name,
                      fixed_rpm |-> fixed_rpm]>>
    /\ (ManifestsRead /\ has_fixed_rpm) => ConstantInPlace
    /\ (ManifestsRead /\ has_fixed_rpm /\ ~Completed)
       => /\ error = "RuntimeError"
          /\ \/ (has_gearbox /\ Gearbox.promotes_outputs = <<>>
                 /\ Propeller.promotes_outputs = <<>>)
             \/ CollectError(subsystems) = "RuntimeError"

\* a run that warned and was wired
C21_Witness ==
    /\ Completed /\ warned # <<>> /\ aviary_inputs.verbosity = BRIEF
    /\ RPM \in Shp.outputs /\ ConstantInPlace

\* the same wiring reached without the warning, the verbosity being QUIET
C21_WitnessQuiet ==
    /\ Completed /\ warned = <<>> /\ aviary_inputs.verbosity = QUIET
    /\ has_fixed_rpm /\ RPM \in Shp.outputs /\ ConstantInPlace

\* a run that warned and then ended with the ambiguity error: every stage
\* was realized and the gearbox has the input the constant is bound to, but
\* the power source's shaft power and the gearbox's shaft_power_out are both
\* exposed as shaft_power
C21_WarnedRunAmbiguous ==
    /\ kind = "mission" /\ phase = "ConfigureFailed" /\ error = "RuntimeError"
    /\ warned # <<>> /\ StagesRealized /\ has_gearbox
    /\ (RPM \o "_in") \in Gearbox.inputs
    /\ {THRUST, THRUST_MAX} \subseteq Propeller.outputs
    /\ PassThroughCollision
    /\ ConstantInPlace

\* ------------------------------------------------------------------ C22
\* the promotions registered at group level for the power source, the
\* constant source, the gearbox and the propeller: <<subsystem, side, entry>>
StagePromotions(subs) ==
    UNION {{<<subs[k].name, "input", e>> : e \in Range(subs[k].promotes_inputs)}
           \cup {<<subs[k].name, "output", e>> : e \in Range(subs[k].promotes_outputs)} :
              k \in {j \in DOMAIN subs :
                        subs[j].role \in {"shp", "fixed_rpm_source",
                                          "gearbox", "propeller"}}}

\* C22: per-node construction goes Declared -> StagesInstantiated -> Wired
\* and then stays: StagesInstantiated is entered from Declared only and
\* Wired from StagesInstantiated only; until configure runs no stage has a
\* promotion at group level and no constant has been added; the promotions
\* of a group change in its configure step and in no other; once the group
\* is wired its subsystems and their promotions stay as they are.
C22_ConstructionPhases ==
    /\ []((kind = "mission"
           /\ phase \in {"Declared", "StagesInstantiated", "SetupFailed"})
          => (StagePromotions(subsystems) = {} /\ rpm_ivc = <<>>))
    /\ [][/\ phase' = "StagesInstantiated" => phase = "Declared"
          /\ (phase' = "Wired" /\ phase # "Wired") => phase = "StagesInstantiated"
          /\ (phase' \notin {"none", "Declared"}
              /\ StagePromotions(subsystems') # StagePromotions(subsystems))
             => (phase = "StagesInstantiated"
                 /\ phase' \in {"Wired", "ConfigureFailed"})
          /\ (phase = "Wired" /\ phase' = "Wired")
             => (subsystems' = subsystems /\ rpm_ivc' = rpm_ivc)]_vars

\* a wired group that has been run: its promotions are those configure left
C22_Witness ==
    /\ Evaluated /\ has_gearbox
    /\ StagePromotions(subsystems) # {}
    /\ \E e \in StagePromotions(subsystems) : e[1] = Gearbox.name /\ e[2] = "input"

\* ------------------------------------------------------------------ C23
\* the stages attached to the composite come in the order power source,
\* gearbox, propeller, each at most once
AttachedInOrder ==
    LET rank(role) == IF role = "shp" THEN 1
                      ELSE IF role = "gearbox" THEN 2 ELSE 3
        stages == {k \in DOMAIN subsystems :
                      subsystems[k].role \in {"shp", "gearbox", "propeller"}}
    IN  \A j, k \in stages :
            j < k => rank(subsystems[j].role) < rank(subsystems[k].role)

\* the number of build calls made to a stage for the composite built last
Calls(stage) == Len(received[stage])

\* C23: in each phase the build operation of every stage of the
\* configuration is called exactly once (the propeller's twice per node),
\* and the stages that return a computation are attached in the order power
\* source, gearbox, propeller.  build_pre_mission does not call an
\* EngineDeck power source, and build_post_mission stops at the first stage
\* that returns a computation.
C23_EveryStageBuiltOnce ==
    /\ kind \in {"pre_mission", "post_mission"}
       => /\ Calls("shp") = 1 /\ Calls("gearbox") = 1
          /\ Calls("propeller") = (IF propeller_model = None THEN 0 ELSE 1)
          /\ error = "none"
    /\ (kind = "mission" /\ phase # "Declared")
       => /\ Calls("shp") = 1
          /\ Calls("gearbox") = (IF has_gearbox THEN 1 ELSE 0)
          /\ Calls("propeller") = 2
    /\ AttachedInOrder

\* What holds: the stages attached are in the fixed order in every phase; a
\* caller's power source, the gearbox and a caller's propeller are called once
\* by build_pre_mission, an EngineDeck is not; per node the power source and
\* the gearbox are called once, the propeller twice unless a caller's
\* propeller returned None the first time.
StagesBuiltAsCoded ==
    /\ AttachedInOrder
    /\ kind = "pre_mission"
       => /\ Calls("shp") = (IF shaft_power_model = EngineDeck THEN 0 ELSE 1)
          /\ Calls("gearbox") = 1
          /\ Calls("propeller") = (IF propeller_model = None THEN 0 ELSE 1)
    /\ (kind = "mission" /\ phase # "Declared")
       => /\ Calls("shp") = 1
          /\ Calls("gearbox") = (IF has_gearbox THEN 1 ELSE 0)
          /\ Calls("propeller")
             = (IF options.propeller_model # None /\ Propeller.children = <<>>
                   THEN 1 ELSE 2)
    /\ (kind = "post_mission" /\ error = "none")
       => /\ Calls("shp") = 1 /\ Calls("gearbox") = 1
          /\ Calls("propeller") = (IF propeller_model = None THEN 0 ELSE 1)

\* ------------------------------------------------------------------ C24
\* the wiring rule an alias comes from, by the rule's place in configure:
\* 1 thrust aliasing, 2 power source -> gearbox, 3 rotational speed,
\* 4 gearbox -> propeller
RuleOf(e) ==
    IF e[2] \in {"turboshaft_thrust", "turboshaft_thrust_max",
                 "propeller_thrust", "propeller_thrust_max"} THEN 1
    ELSE IF EndsWith(e[2], "_gearbox") THEN 2
    ELSE IF e[2] \in {"fixed_rpm", "AUTO_OVERRIDE:" \o RPM} THEN 3
    ELSE 4

====
